---- MODULE Spec2Model ----
(***************************************************************************)
(* Transcode job lifecycle of the abr-test server (main.go): the registry  *)
(* state.mappings guarded by state.mu, its JSON file, the three API        *)
(* handlers and the transcode goroutine.                                   *)
(*                                                                         *)
(* File names and URLs are sequences of one-character strings, so that     *)
(* filepath.Ext, strings.TrimSuffix and fmt.Sprintf are computed.          *)
(* A *VideoMapping is an index into heap (0 is nil); the goroutine started *)
(* by the submission that allocated heap[j] is runner[j].                  *)
(***************************************************************************)
EXTENDS Naturals, Sequences, FiniteSets

\* ---------------------------------------------------------------- bounds
NumHandlers == 2    \* request-handling goroutines that exist at once
MaxJobs == 3        \* accepted submissions (VideoMapping allocations)
MaxFairJobs == 2    \* the same, in the specification with fairness

Handlers == 1..NumHandlers
JobIds == 1..MaxJobs

\* ------------------------------------------------------ names and strings
A_MP4 == <<"a", ".", "m", "p", "4">>
A_MKV == <<"a", ".", "m", "k", "v">>
N_TXT == <<"n", ".", "t", "x", "t">>
EmptyStr == <<>>

\* The names a request can carry, "" for a missing parameter.
ReqNames == {A_MP4, A_MKV, EmptyStr}
\* The keys the registry can hold.
Keys == {A_MP4, A_MKV}

Range(s) == {s[i] : i \in 1..Len(s)}

\* filepath.Ext: the suffix beginning at the final dot of the final element.
RECURSIVE ExtFrom(_, _)
ExtFrom(path, i) ==
    IF i < 1 \/ path[i] = "/" THEN <<>>
    ELSE IF path[i] = "." THEN SubSeq(path, i, Len(path))
    ELSE ExtFrom(path, i - 1)

Ext(path) == ExtFrom(path, Len(path))

HasSuffix(s, suffix) ==
    /\ Len(s) >= Len(suffix)
    /\ SubSeq(s, Len(s) - Len(suffix) + 1, Len(s)) = suffix

TrimSuffix(s, suffix) ==
    IF HasSuffix(s, suffix) THEN SubSeq(s, 1, Len(s) - Len(suffix)) ELSE s

\* transcodeDir := strings.TrimSuffix(videoName, filepath.Ext(videoName))
TranscodeDirOf(videoName) == TrimSuffix(videoName, Ext(videoName))

\* fmt.Sprintf("/hls/%s/master.m3u8", dir)
StreamURL(dir) ==
    <<"/", "h", "l", "s", "/">> \o dir
        \o <<"/", "m", "a", "s", "t", "e", "r", ".", "m", "3", "u", "8">>

\* the extensions handleGetVideos lists (after strings.ToLower; the names of
\* the model are lower case already)
VideoExts ==
    { <<".", "m", "p", "4">>, <<".", "m", "k", "v">>, <<".", "a", "v", "i">>,
      <<".", "m", "o", "v">>, <<".", "w", "e", "b", "m">> }

\* ------------------------------------------------------------- constants
Processing == "processing"
Completed == "completed"
Failed == "failed"
\* What an unsynchronised read of Status may yield while the two-word string
\* is being stored: the pointer of one value with the length of the other.
TornStatus == "<torn>"

NoOne == <<>>
NoResp == [code |-> 0]

VARIABLES
    mu,          \* state.mu: [writer: NoOne or the holder, readers: set of
                 \* handlers, pending: NoOne or the writer that waits in Lock()
                 \* for the readers to leave]
    mappings,    \* state.mappings: key -> index into heap (0: no entry)
    heap,        \* the VideoMapping objects allocated so far
    disk,        \* transcode_mappings.json: whether it exists, its form
                 \* ("json", "truncated", "mistyped") and its members
    dirs,        \* the directories made under transcoded/
    videos,      \* os.ReadDir("./videos"): the entries, sorted by file name
    loadErr,     \* what state.load() returned to main ("pending": not yet called)
    runner,      \* the transcode goroutines, one per allocation
    handlers,    \* the request goroutines
    returned,    \* history: videos with an accepted submission already answered
    term,        \* history: the status the last finished runner wrote, per video
    seen,        \* history: per submission, the status stored when it looked up
    stillProc,   \* history: per request, its video's record stayed processing
    expect       \* history: per status query, term of its video when it began

vars == <<mu, mappings, heap, disk, dirs, videos, loadErr, runner, handlers,
          returned, term, seen, stillProc, expect>>
hist == <<returned, term, seen, stillProc, expect>>

IdleHandler ==
    [pc |-> "idle", kind |-> "none", method |-> "", videoName |-> EmptyStr,
     mapping |-> 0, exists |-> FALSE, job |-> 0, resp |-> NoResp]

NoRunner == [pc |-> "none", videoName |-> EmptyStr, err |-> "nil"]

\* transcode_mappings.json does not exist.
NoFile == [present |-> FALSE, form |-> "json", doc |-> {}]

\* os.Stat(filepath.Join("videos", name)) finds the file.
FileExists(name) == name \in Range(videos)

\* main(): an empty registry, no state file yet (load() returns nil);
\* videos/ holds one video (a.mkv is the name of an absent file) and a text file.
Init ==
    /\ mu = [writer |-> NoOne, readers |-> {}, pending |-> NoOne]
    /\ mappings = [k \in Keys |-> 0]
    /\ heap = <<>>
    /\ disk = NoFile
    /\ dirs = {}
    /\ videos = <<A_MP4, N_TXT>>
    /\ loadErr = "nil"
    /\ runner = [j \in JobIds |-> NoRunner]
    /\ handlers = [h \in Handlers |-> IdleHandler]
    /\ returned = {}
    /\ term = [k \in Keys |-> "none"]
    /\ seen = [h \in Handlers |-> "none"]
    /\ stillProc = [h \in Handlers |-> FALSE]
    /\ expect = [h \in Handlers |-> "none"]


\* ------------------------------------------------------------- registry
\* the lookup done with the directory name instead of the video name
LookupByDir(name) ==
    IF TranscodeDirOf(name) \in Keys THEN mappings[TranscodeDirOf(name)] ELSE 0
\* state.mappings[name]: the pointer and the comma-ok flag
Lookup(name) == IF name \in Keys THEN mappings[name] ELSE 0

\* The runner that is in the middle of storing into heap[obj].Status.
StoringInto(obj) ==
    {j \in JobIds : runner[j].pc = "storing" /\ Lookup(runner[j].videoName) = obj}

\* err != nil -> "failed", else "completed" (transcode)
NewStatus(err) == IF err # "nil" THEN Failed ELSE Completed

\* mapping.Status read while holding state.mu: no store is in progress.
LockedStatus(obj) == heap[obj].Status

\* mapping.Status read after RUnlock: races with a runner's store.
RacyStatus(obj) ==
    {heap[obj].Status}
        \cup UNION { IF NewStatus(runner[j].err) = heap[obj].Status
                     THEN {}
                     ELSE {NewStatus(runner[j].err), TornStatus}
                     : j \in StoringInto(obj) }

\* json.Marshal(s.mappings): one member per key, with the fields of the
\* object the key points to under their JSON names
\* lines 310-314 with every record written with the status it was inserted with
MarshalAsInserted(m, hp) ==
    { [key |-> k,
       original_name |-> hp[m[k]].OriginalName,
       transcode_dir |-> hp[m[k]].TranscodeDir,
       status |-> Processing] : k \in {n \in Keys : m[n] # 0} }
Marshal(m, hp) ==
    { [key |-> k,
       original_name |-> hp[m[k]].OriginalName,
       transcode_dir |-> hp[m[k]].TranscodeDir,
       status |-> hp[m[k]].Status] : k \in {n \in Keys : m[n] # 0} }

\* os.WriteFile(s.filePath, data, 0644): the file is opened with O_TRUNC and
\* then written. It is replaced, or the open fails and the file is as before,
\* or the write fails and leaves a truncated file.
SaveResults == {"ok", "open failed", "write failed"}

WriteFile(data, result) ==
    IF result = "ok" THEN [present |-> TRUE, form |-> "json", doc |-> data]
    ELSE IF result = "open failed" THEN disk
    ELSE [present |-> TRUE, form |-> "truncated", doc |-> {}]

\* state.save()
Save(result) == disk' = WriteFile(Marshal(mappings, heap), result)

\* A handler that has written its response returns before any other goroutine
\* takes a step: Return touches the handler's own locals only, so running it
\* first reaches the same states of everything else.
NoResponsePending == \A g \in Handlers : handlers[g].pc # "done"

\* The request goroutines are interchangeable: a new request is served by the
\* lowest-numbered one that is free, once main has loaded the registry and
\* listens (line 63).
Free(h) ==
    /\ loadErr # "pending"
    /\ handlers[h].pc = "idle"
    /\ \A g \in Handlers : g < h => handlers[g].pc # "idle"

\* sync.RWMutex. (A blocked Lock also holds back later RLock calls; that
\* orders the waiters and excludes no state of the registry.)
\* RLock blocks while a writer holds the lock or waits for it.
CanRLock == mu.writer = NoOne /\ mu.pending = NoOne
CanLock == mu.writer = NoOne /\ mu.readers = {}
RLock(h) == mu' = [mu EXCEPT !.readers = @ \cup {h}]
RUnlock(h) == mu' = [mu EXCEPT !.readers = @ \ {h}]
Lock(who) == mu' = [mu EXCEPT !.writer = who, !.pending = NoOne]
\* a return path that leaves the lock held
UnlockForgotten == mu' = mu
Unlock == mu' = [mu EXCEPT !.writer = NoOne]

\* http.Error(w, text, code)
HttpError(code, text) == [code |-> code, body |-> text]
\* json.NewEncoder(w).Encode(body) with the implicit 200
Json(body) == [code |-> 200, body |-> body]

Respond(h, resp) ==
    handlers' = [handlers EXCEPT ![h].pc = "done", ![h].resp = resp]
Goto(h, pc) == handlers' = [handlers EXCEPT ![h].pc = pc]

\* Submissions that have passed validation and may still allocate a record.
MayAllocate ==
    {h \in Handlers : handlers[h].pc \in
        {"t_chk1", "t_chk2", "t_lock"}}

\* The status stored for a video, as a reader holding the lock would see it.
StatusOf(name) ==
    IF Lookup(name) = 0 THEN "none" ELSE heap[Lookup(name)].Status


\* ------------------------------------------------- handleTranscode (154-221)
\* History kept with a submission when it begins: an earlier accepted
\* submission for the video has been answered and its record is processing.
BeginsWhileProcessing(name) ==
    /\ name \in returned
    /\ StatusOf(name) = Processing
    /\ StoringInto(Lookup(name)) = {}

\* lines 158-174 with the source file looked for only when the registry has
\* no record of the name
TranscodeRejectUnknown(method, name) ==
    IF method # "POST" THEN HttpError(405, "Method not allowed")
    ELSE IF name = EmptyStr THEN HttpError(400, "Missing 'video' parameter")
    ELSE IF ~FileExists(name) /\ Lookup(name) = 0
        THEN HttpError(404, "Video not found")
    ELSE NoResp
\* lines 158-174: what the method, parameter and os.Stat checks answer
\* (NoResp: the request passes them)
TranscodeReject(method, name) ==
    IF method # "POST" THEN HttpError(405, "Method not allowed")
    ELSE IF name = EmptyStr THEN HttpError(400, "Missing 'video' parameter")
    ELSE IF ~FileExists(name) THEN HttpError(404, "Video not found")
    ELSE NoResp

\* lines 155-179: the checks, then the lookup under RLock.
\* With exists false both status tests (181, 190) are skipped.
StartTranscode(h, method, name) ==
    /\ NoResponsePending
    /\ Free(h)
    /\ IF TranscodeReject(method, name) # NoResp THEN
            /\ handlers' = [handlers EXCEPT ![h] =
                    [IdleHandler EXCEPT !.pc = "done", !.kind = "transcode",
                        !.method = method, !.videoName = name,
                        !.resp = TranscodeReject(method, name)]]
            /\ UNCHANGED <<seen, stillProc>>
       ELSE
            /\ Len(heap) + Cardinality(MayAllocate) < MaxJobs
            /\ CanRLock
            /\ handlers' = [handlers EXCEPT ![h] =
                    [IdleHandler EXCEPT !.kind = "transcode",
                        !.method = method, !.videoName = name,
                        !.mapping = Lookup(name),
                        !.exists = Lookup(name) # 0,
                        !.pc = IF Lookup(name) # 0 THEN "t_chk1" ELSE "t_lock"]]
            /\ seen' = [seen EXCEPT ![h] = StatusOf(name)]
            /\ stillProc' = [stillProc EXCEPT ![h] = BeginsWhileProcessing(name)]
    /\ UNCHANGED <<mu, mappings, heap, disk, dirs, videos, loadErr, runner,
                   returned, term, expect>>

\* line 181: mapping.Status == "completed"
IsCompleted(status) == status = Completed
\* line 190 with the literal misspelt: the test never succeeds
IsProcessingWrongLiteral(status) == status = "Processing"
\* line 190: mapping.Status == "processing"
IsProcessing(status) == status = Processing

\* lines 181-188: the lock is no longer held when Status is read
TranscodeCheckCompleted(h) ==
    /\ NoResponsePending
    /\ handlers[h].pc = "t_chk1"
    /\ \E status \in RacyStatus(handlers[h].mapping) :
            IF IsCompleted(status) THEN
                Respond(h, Json(
                    [message |-> "Video already transcoded",
                     transcode_dir |-> heap[handlers[h].mapping].TranscodeDir,
                     stream_url |->
                        StreamURL(heap[handlers[h].mapping].TranscodeDir)]))
            ELSE Goto(h, "t_chk2")
    /\ UNCHANGED <<mu, mappings, heap, disk, dirs, videos, loadErr, runner, hist>>

\* lines 190-196: Status is read a second time
TranscodeCheckProcessing(h) ==
    /\ NoResponsePending
    /\ handlers[h].pc = "t_chk2"
    /\ \E status \in RacyStatus(handlers[h].mapping) :
            IF IsProcessing(status) THEN
                Respond(h, Json(
                    [message |-> "Video is currently being transcoded",
                     status |-> Processing]))
            ELSE Goto(h, "t_lock")
    /\ UNCHANGED <<mu, mappings, heap, disk, dirs, videos, loadErr, runner, hist>>

\* lines 205-209 with the new record already marked completed
NewMappingCompleted(videoName) ==
    [OriginalName |-> videoName,
     TranscodeDir |-> TranscodeDirOf(videoName),
     Status |-> Completed]
\* lines 205-209: the new record
NewMapping(videoName) ==
    [OriginalName |-> videoName,
     TranscodeDir |-> TranscodeDirOf(videoName),
     Status |-> Processing]

\* lines 199-209: os.MkdirAll(transcoded/<dir>); state.mu.Lock();
\* state.mappings[videoName] = &VideoMapping{...}
TranscodePut(h) ==
    /\ NoResponsePending
    /\ handlers[h].pc = "t_lock"
    /\ CanLock
    /\ Lock(<<"H", h>>)
    /\ dirs' = dirs \cup {TranscodeDirOf(handlers[h].videoName)}
    /\ heap' = Append(heap, NewMapping(handlers[h].videoName))
    /\ mappings' = [mappings EXCEPT ![handlers[h].videoName] = Len(heap) + 1]
    /\ handlers' = [handlers EXCEPT ![h].pc = "t_save", ![h].job = Len(heap) + 1]
    /\ term' = [term EXCEPT ![handlers[h].videoName] = "none"]
    /\ expect' = [g \in Handlers |->
            IF handlers[g].videoName = handlers[h].videoName
            THEN "none" ELSE expect[g]]
    /\ UNCHANGED <<disk, videos, loadErr, runner, returned, seen, stillProc>>

\* lines 210-211: state.save(), its error dropped; state.mu.Unlock()
TranscodeSave(h, result) ==
    /\ NoResponsePending
    /\ handlers[h].pc = "t_save"
    /\ Save(result)
    /\ Unlock
    /\ Goto(h, "t_go")
    /\ UNCHANGED <<mappings, heap, dirs, videos, loadErr, runner, hist>>

\* line 214: go transcode(videoPath, transcodeFullPath, videoName)
Spawn(videoName) == [pc |-> "run", videoName |-> videoName, err |-> "nil"]

\* lines 214-220: the goroutine, then the response
TranscodeGo(h) ==
    /\ NoResponsePending
    /\ handlers[h].pc = "t_go"
    /\ runner' = [runner EXCEPT ![handlers[h].job] = Spawn(handlers[h].videoName)]
    /\ Respond(h, Json(
            [message |-> "Transcoding started",
             transcode_dir |-> TranscodeDirOf(handlers[h].videoName),
             status |-> Processing]))
    /\ returned' = returned \cup {handlers[h].videoName}
    /\ UNCHANGED <<mu, mappings, heap, disk, dirs, videos, loadErr,
                   term, seen, stillProc, expect>>

\* --------------------------------------------------- handleStatus (223-253)
\* lines 224-240: strings.TrimPrefix(r.URL.Path, "/api/status/"), the lookup
\* under RLock, and the 404 of an unknown video
StartStatus(h, name) ==
    /\ NoResponsePending
    /\ Free(h)
    /\ IF name = EmptyStr THEN
            /\ handlers' = [handlers EXCEPT ![h] =
                    [IdleHandler EXCEPT !.pc = "done", !.kind = "status",
                        !.resp = HttpError(400, "Missing video name")]]
            /\ UNCHANGED expect
       ELSE
            /\ CanRLock
            /\ handlers' = [handlers EXCEPT ![h] =
                    IF Lookup(name) = 0 THEN
                        [IdleHandler EXCEPT !.pc = "done", !.kind = "status",
                            !.videoName = name,
                            !.resp = HttpError(404, "Video not found")]
                    ELSE
                        [IdleHandler EXCEPT !.pc = "s_build", !.kind = "status",
                            !.videoName = name,
                            !.mapping = Lookup(name),
                            !.exists = TRUE]]
            /\ expect' = [expect EXCEPT ![h] =
                    IF name \in Keys THEN term[name] ELSE "none"]
    /\ UNCHANGED <<mu, mappings, heap, disk, dirs, videos, loadErr, runner,
                   returned, term, seen, stillProc>>

\* lines 242-246: the response map; Status is read without the lock
StatusBuild(h) ==
    /\ NoResponsePending
    /\ handlers[h].pc = "s_build"
    /\ \E status \in RacyStatus(handlers[h].mapping) :
            handlers' = [handlers EXCEPT
                ![h].pc = "s_url",
                ![h].resp = Json(
                    [video |-> heap[handlers[h].mapping].OriginalName,
                     transcode_dir |-> heap[handlers[h].mapping].TranscodeDir,
                     status |-> status])]
    /\ UNCHANGED <<mu, mappings, heap, disk, dirs, videos, loadErr, runner, hist>>

\* response["stream_url"] = ... (line 249)
WithStreamURL(body, dir) ==
    [k \in DOMAIN body \cup {"stream_url"} |->
        IF k = "stream_url" THEN StreamURL(dir) ELSE body[k]]

\* lines 248-252: Status is read again to decide on stream_url
StatusURL(h) ==
    /\ NoResponsePending
    /\ handlers[h].pc = "s_url"
    /\ \E status \in RacyStatus(handlers[h].mapping) :
            IF IsCompleted(status) THEN
                Respond(h, Json(WithStreamURL(handlers[h].resp.body,
                                    heap[handlers[h].mapping].TranscodeDir)))
            ELSE Goto(h, "done")
    /\ UNCHANGED <<mu, mappings, heap, disk, dirs, videos, loadErr, runner, hist>>

\* ------------------------------------------------- handleGetVideos (90-152)
\* lines 94-115: the method check, os.ReadDir and state.mu.RLock()
StartVideos(h, method, readDirOk) ==
    /\ NoResponsePending
    /\ Free(h)
    /\ IF method # "GET" THEN
            /\ handlers' = [handlers EXCEPT ![h] =
                    [IdleHandler EXCEPT !.pc = "done", !.kind = "videos",
                        !.method = method,
                        !.resp = HttpError(405, "Method not allowed")]]
            /\ UNCHANGED mu
       ELSE IF ~readDirOk THEN
            /\ handlers' = [handlers EXCEPT ![h] =
                    [IdleHandler EXCEPT !.pc = "done", !.kind = "videos",
                        !.method = method,
                        !.resp = HttpError(500, "Could not read videos directory")]]
            /\ UNCHANGED mu
       ELSE
            /\ CanRLock
            /\ RLock(h)
            /\ handlers' = [handlers EXCEPT ![h] =
                    [IdleHandler EXCEPT !.pc = "g_list", !.kind = "videos",
                        !.method = method]]
    /\ UNCHANGED <<mappings, heap, disk, dirs, videos, loadErr, runner, hist>>

\* lines 130-142 with the stream URL set for every record
VideoInfoAlwaysURL(name) ==
    IF Lookup(name) = 0 THEN [name |-> name, transcoded |-> FALSE]
    ELSE
        [name |-> name,
         transcoded |-> LockedStatus(Lookup(name)) = Completed,
         status |-> LockedStatus(Lookup(name)),
         stream_url |-> StreamURL(heap[Lookup(name)].TranscodeDir),
         transcode_dir |-> heap[Lookup(name)].TranscodeDir]
\* lines 130-142: one VideoInfo; the omitempty fields are left out when empty
VideoInfo(name) ==
    IF Lookup(name) = 0 THEN [name |-> name, transcoded |-> FALSE]
    ELSE IF LockedStatus(Lookup(name)) = Completed THEN
        [name |-> name, transcoded |-> TRUE,
         status |-> LockedStatus(Lookup(name)),
         stream_url |-> StreamURL(heap[Lookup(name)].TranscodeDir),
         transcode_dir |-> heap[Lookup(name)].TranscodeDir]
    ELSE
        [name |-> name, transcoded |-> FALSE,
         status |-> LockedStatus(Lookup(name)),
         transcode_dir |-> heap[Lookup(name)].TranscodeDir]

\* lines 118-147: the loop over the entries, keeping the video files
RECURSIVE ListVideos(_)
ListVideos(entries) ==
    IF entries = <<>> THEN <<>>
    ELSE IF Ext(Head(entries)) \notin VideoExts THEN ListVideos(Tail(entries))
    ELSE <<VideoInfo(Head(entries))>> \o ListVideos(Tail(entries))

\* lines 118-152: the loop, Encode and the deferred RUnlock, all under RLock
VideosList(h) ==
    /\ NoResponsePending
    /\ handlers[h].pc = "g_list"
    /\ Respond(h, Json(ListVideos(videos)))
    /\ RUnlock(h)
    /\ UNCHANGED <<mappings, heap, disk, dirs, videos, loadErr, runner, hist>>

\* The handler function returns; its goroutine serves the next request.
Return(h) ==
    /\ handlers[h].pc = "done"
    /\ handlers' = [handlers EXCEPT ![h] = IdleHandler]
    /\ seen' = [seen EXCEPT ![h] = "none"]
    /\ stillProc' = [stillProc EXCEPT ![h] = FALSE]
    /\ expect' = [expect EXCEPT ![h] = "none"]
    /\ UNCHANGED <<mu, mappings, heap, disk, dirs, videos, loadErr, runner, returned, term>>

\* ------------------------------------------------------ transcode (255-293)
\* The record the runner's store goes to: state.mappings[videoName]
Target(j) == Lookup(runner[j].videoName)

\* lines 279-289: cmd.CombinedOutput() ends (exit 0, a non-zero exit, or no
\* launch), state.mu.Lock(), and the store into Status begins
RunnerLock(j, err) ==
    /\ NoResponsePending
    /\ runner[j].pc = "run"
    /\ CanLock
    /\ Lock(<<"R", j>>)
    /\ Target(j) # 0
    /\ runner' = [runner EXCEPT ![j].pc = "storing", ![j].err = err]
    /\ stillProc' = [h \in Handlers |->
            stillProc[h] /\ handlers[h].videoName # runner[j].videoName]
    /\ UNCHANGED <<mappings, heap, disk, dirs, videos, loadErr, handlers,
                   returned, term, seen, expect>>

\* lines 284-290 with the record of a failed job deleted from the map
RunnerStoreDeletesFailed(j) ==
    /\ NoResponsePending
    /\ runner[j].pc = "storing"
    /\ IF runner[j].err # "nil" THEN
            /\ mappings' = [mappings EXCEPT ![runner[j].videoName] = 0]
            /\ heap' = heap
       ELSE
            /\ mappings' = mappings
            /\ heap' = [heap EXCEPT
                    ![Target(j)].Status = NewStatus(runner[j].err)]
    /\ runner' = [runner EXCEPT ![j].pc = "save", ![j].err = "nil"]
    /\ UNCHANGED <<mu, disk, dirs, videos, loadErr, handlers, hist>>
\* lines 286/289: the store is complete
RunnerStore(j) ==
    /\ NoResponsePending
    /\ runner[j].pc = "storing"
    /\ heap' = [heap EXCEPT ![Target(j)].Status = NewStatus(runner[j].err)]
    /\ runner' = [runner EXCEPT ![j].pc = "save", ![j].err = "nil"]
    /\ UNCHANGED <<mu, mappings, disk, dirs, videos, loadErr, handlers, hist>>

\* lines 292, 282: state.save(), the deferred state.mu.Unlock(); the
\* goroutine ends
RunnerSave(j, result) ==
    /\ NoResponsePending
    /\ runner[j].pc = "save"
    /\ Save(result)
    /\ Unlock
    /\ runner' = [runner EXCEPT ![j].pc = "done"]
    /\ term' = [term EXCEPT ![runner[j].videoName] = heap[Target(j)].Status]
    /\ UNCHANGED <<mappings, heap, dirs, videos, loadErr, handlers,
                   returned, seen, stillProc, expect>>

\* ------------------------------------------------------------ the system
Methods == {"GET", "POST"}
EncoderResults == {"nil", "exit status 1", "executable file not found"}

Next ==
    \/ \E h \in Handlers, m \in Methods, n \in ReqNames : StartTranscode(h, m, n)
    \/ \E h \in Handlers : TranscodeCheckCompleted(h)
    \/ \E h \in Handlers : TranscodeCheckProcessing(h)
    \/ \E h \in Handlers : TranscodePut(h)
    \/ \E h \in Handlers, r \in SaveResults : TranscodeSave(h, r)
    \/ \E h \in Handlers : TranscodeGo(h)
    \/ \E h \in Handlers, n \in ReqNames : StartStatus(h, n)
    \/ \E h \in Handlers : StatusBuild(h)
    \/ \E h \in Handlers : StatusURL(h)
    \/ \E h \in Handlers, m \in Methods, ok \in BOOLEAN : StartVideos(h, m, ok)
    \/ \E h \in Handlers : VideosList(h)
    \/ \E h \in Handlers : Return(h)
    \/ \E j \in JobIds, e \in EncoderResults : RunnerLock(j, e)
    \/ \E j \in JobIds : RunnerStore(j)
    \/ \E j \in JobIds, r \in SaveResults : RunnerSave(j, r)

Spec == Init /\ [][Next]_vars

\* ------------------------------------------------- startup (main 29-43)
\* json.Unmarshal(data, &s.mappings) of the file's content: the error it
\* returns and the members it stores into the map. A document that is not
\* valid JSON is rejected before anything is stored; a member of the wrong
\* JSON type (form "mistyped": original_name is a number) is skipped, the
\* rest is decoded and the type error is returned at the end.
Unmarshal(file) ==
    IF file.form = "truncated" THEN
        [err |-> "unexpected end of JSON input", members |-> {}]
    ELSE IF file.form = "mistyped" THEN
        [err |-> "json: cannot unmarshal number into Go struct field",
         members |-> {[r EXCEPT !.original_name = EmptyStr] : r \in file.doc}]
    ELSE [err |-> "nil", members |-> file.doc]

\* The keys of the decoded members, in the order the records are allocated.
KeyOrder == <<A_MKV, A_MP4>>
LoadedKeys(members) ==
    SelectSeq(KeyOrder, LAMBDA k : \E r \in members : r.key = k)

\* The *VideoMapping allocated for a decoded member.
LoadedMapping(members, key) ==
    LET r == CHOOSE m \in members : m.key = key IN
        [OriginalName |-> r.original_name,
         TranscodeDir |-> r.transcode_dir,
         Status |-> r.status]

\* lines 295-308 and 37-39: state.load() under Lock, its error only logged.
\* A missing file is no error; a file that cannot be read leaves the map
\* empty; otherwise the map holds what Unmarshal stored.
Load(readOk) ==
    /\ loadErr = "pending"
    /\ IF ~disk.present THEN
            /\ loadErr' = "nil"
            /\ UNCHANGED <<mappings, heap>>
       ELSE IF ~readOk THEN
            /\ loadErr' = "read error"
            /\ UNCHANGED <<mappings, heap>>
       ELSE
            LET u == Unmarshal(disk)
                keys == LoadedKeys(u.members)
            IN  /\ loadErr' = u.err
                /\ heap' = [i \in 1..Len(keys) |->
                                LoadedMapping(u.members, keys[i])]
                /\ mappings' = [k \in Keys |->
                        IF \E i \in 1..Len(keys) : keys[i] = k
                        THEN CHOOSE i \in 1..Len(keys) : keys[i] = k
                        ELSE 0]
    /\ UNCHANGED <<mu, disk, dirs, videos, runner, handlers, hist>>

\* One member of transcode_mappings.json
Member(key, status) ==
    [key |-> key, original_name |-> key,
     transcode_dir |-> TranscodeDirOf(key), status |-> status]

\* The files the process may find when it starts: none, an empty object, a
\* file an earlier run saved, one it left truncated, one whose
\* original_name members are numbers.
BootFiles ==
    {NoFile,
     [present |-> TRUE, form |-> "json", doc |-> {}],
     [present |-> TRUE, form |-> "truncated", doc |-> {}]}
    \cup {[present |-> TRUE, form |-> "json", doc |-> {Member(A_MP4, st)}] :
                st \in {Processing, Completed, Failed}}
    \cup {[present |-> TRUE, form |-> "json",
            doc |-> {Member(A_MP4, Completed), Member(A_MKV, Failed)}],
          [present |-> TRUE, form |-> "mistyped",
            doc |-> {Member(A_MP4, Completed)}]}

\* main before state.load() (line 37)
InitBoot ==
    /\ mu = [writer |-> NoOne, readers |-> {}, pending |-> NoOne]
    /\ mappings = [k \in Keys |-> 0]
    /\ heap = <<>>
    /\ disk \in BootFiles
    /\ dirs = {}
    /\ videos = <<A_MP4, N_TXT>>
    /\ loadErr = "pending"
    /\ runner = [j \in JobIds |-> NoRunner]
    /\ handlers = [h \in Handlers |-> IdleHandler]
    /\ returned = {}
    /\ term = [n \in Keys |-> "none"]
    /\ seen = [h \in Handlers |-> "none"]
    /\ stillProc = [h \in Handlers |-> FALSE]
    /\ expect = [h \in Handlers |-> "none"]

\* Startup, then the requests that read the registry.
NextBoot ==
    \/ \E readOk \in BOOLEAN : Load(readOk)
    \/ \E h \in Handlers, n \in ReqNames : StartStatus(h, n)
    \/ \E h \in Handlers : StatusBuild(h)
    \/ \E h \in Handlers : StatusURL(h)
    \/ \E h \in Handlers, m \in Methods, ok \in BOOLEAN : StartVideos(h, m, ok)
    \/ \E h \in Handlers : VideosList(h)
    \/ \E h \in Handlers : Return(h)

SpecBoot == InitBoot /\ [][NextBoot]_vars

\* ------------------------------------------ every persistence call succeeds
\* The steps of Next with os.WriteFile (316) never failing.
NextSaveOk ==
    \/ \E h \in Handlers, m \in Methods, n \in ReqNames : StartTranscode(h, m, n)
    \/ \E h \in Handlers : TranscodeCheckCompleted(h)
    \/ \E h \in Handlers : TranscodeCheckProcessing(h)
    \/ \E h \in Handlers : TranscodePut(h)
    \/ \E h \in Handlers : TranscodeSave(h, "ok")
    \/ \E h \in Handlers : TranscodeGo(h)
    \/ \E h \in Handlers, n \in ReqNames : StartStatus(h, n)
    \/ \E h \in Handlers : StatusBuild(h)
    \/ \E h \in Handlers : StatusURL(h)
    \/ \E h \in Handlers, m \in Methods, ok \in BOOLEAN : StartVideos(h, m, ok)
    \/ \E h \in Handlers : VideosList(h)
    \/ \E h \in Handlers : Return(h)
    \/ \E j \in JobIds, e \in EncoderResults : RunnerLock(j, e)
    \/ \E j \in JobIds : RunnerStore(j)
    \/ \E j \in JobIds : RunnerSave(j, "ok")

SpecSaveOk == Init /\ [][NextSaveOk]_vars

\* ------------------------------------------------ Lock() as two steps
\* sync.RWMutex.Lock announces the writer, which blocks every later RLock,
\* and returns when the readers that hold the lock have left. Next takes Lock
\* in one step at an instant without readers; here the call and the return
\* are two steps, so that a writer waits while readers hold the lock.
CanCallLock == mu.writer = NoOne /\ mu.pending = NoOne
CallLock(who) == mu' = [mu EXCEPT !.pending = who]

\* line 204: state.mu.Lock() is called
TranscodeLockCall(h) ==
    /\ NoResponsePending
    /\ handlers[h].pc = "t_lock"
    /\ CanCallLock
    /\ CallLock(<<"H", h>>)
    /\ UNCHANGED <<mappings, heap, disk, dirs, videos, loadErr, runner,
                   handlers, hist>>

\* lines 279-281: cmd.CombinedOutput() has returned; state.mu.Lock() is called
RunnerLockCall(j) ==
    /\ NoResponsePending
    /\ runner[j].pc = "run"
    /\ CanCallLock
    /\ CallLock(<<"R", j>>)
    /\ UNCHANGED <<mappings, heap, disk, dirs, videos, loadErr, runner,
                   handlers, hist>>

\* What the goroutine of a submission or of a listing does after its first
\* step.
HandlerStep(h) ==
    \/ TranscodeCheckCompleted(h)
    \/ TranscodeCheckProcessing(h)
    \/ TranscodeLockCall(h)
    \/ mu.pending = <<"H", h>> /\ TranscodePut(h)
    \/ \E r \in SaveResults : TranscodeSave(h, r)
    \/ TranscodeGo(h)
    \/ VideosList(h)
    \/ Return(h)

\* What a transcode goroutine does once the encoder has ended.
RunnerStep(j) ==
    \/ RunnerLockCall(j)
    \/ \E e \in EncoderResults : mu.pending = <<"R", j>> /\ RunnerLock(j, e)
    \/ RunnerStore(j)
    \/ \E r \in SaveResults : RunnerSave(j, r)

\* The requests are those that hold the lock over more than one step:
\* submissions for a.mp4 (writers) and listings (readers).
NextFair ==
    \/ \E h \in Handlers :
            Len(heap) < MaxFairJobs /\ StartTranscode(h, "POST", A_MP4)
    \/ \E h \in Handlers : StartVideos(h, "GET", TRUE)
    \/ \E h \in Handlers : HandlerStep(h)
    \/ \E j \in JobIds : RunnerStep(j)

\* The Go scheduler runs every runnable goroutine, every encoder invocation
\* ends, and a goroutine blocked in Lock or RLock is woken when the lock is
\* handed on. Requests need not arrive.
Fairness ==
    /\ \A h \in Handlers : SF_vars(HandlerStep(h))
    /\ \A j \in JobIds : SF_vars(RunnerStep(j))

SpecFair == Init /\ [][NextFair]_vars /\ Fairness

\* ------------------------------------------------------ stop and restart
\* The process stops (killed, or the machine goes down) while it serves:
\* memory, goroutines and encoder children are gone, the files stay. It is
\* started again and main runs from its first line.
Crash ==
    /\ loadErr # "pending"
    /\ mu' = [writer |-> NoOne, readers |-> {}, pending |-> NoOne]
    /\ mappings' = [k \in Keys |-> 0]
    /\ heap' = <<>>
    /\ loadErr' = "pending"
    /\ runner' = [j \in JobIds |-> NoRunner]
    /\ handlers' = [h \in Handlers |-> IdleHandler]
    /\ returned' = {}
    /\ term' = [n \in Keys |-> "none"]
    /\ seen' = [h \in Handlers |-> "none"]
    /\ stillProc' = [h \in Handlers |-> FALSE]
    /\ expect' = [h \in Handlers |-> "none"]
    /\ UNCHANGED <<disk, dirs, videos>>

\* The steps of the server with every save succeeding, stops and restarts.
NextRestart ==
    \/ NextSaveOk
    \/ Crash
    \/ \E readOk \in BOOLEAN : Load(readOk)

SpecRestart == Init /\ [][NextRestart]_vars

\* ------------------------------------------------- two source videos
\* videos/ holds a.mkv and a.mp4, names that differ only in the extension.
InitTwo ==
    /\ mu = [writer |-> NoOne, readers |-> {}, pending |-> NoOne]
    /\ mappings = [k \in Keys |-> 0]
    /\ heap = <<>>
    /\ disk = NoFile
    /\ dirs = {}
    /\ videos = <<A_MKV, A_MP4, N_TXT>>
    /\ loadErr = "nil"
    /\ runner = [j \in JobIds |-> NoRunner]
    /\ handlers = [h \in Handlers |-> IdleHandler]
    /\ returned = {}
    /\ term = [n \in Keys |-> "none"]
    /\ seen = [h \in Handlers |-> "none"]
    /\ stillProc = [h \in Handlers |-> FALSE]
    /\ expect = [h \in Handlers |-> "none"]

\* outputDir of the runner (the transcodeFullPath of 200, passed at 214):
\* ffmpeg writes master.m3u8 and stream_*/ under transcoded/<dir>
OutputDir(j) == TranscodeDirOf(runner[j].videoName)

\* Submissions for the two videos and their runners.
NextTwo ==
    \/ \E h \in Handlers, n \in Keys : StartTranscode(h, "POST", n)
    \/ \E h \in Handlers : TranscodeCheckCompleted(h)
    \/ \E h \in Handlers : TranscodeCheckProcessing(h)
    \/ \E h \in Handlers : TranscodePut(h)
    \/ \E h \in Handlers, r \in SaveResults : TranscodeSave(h, r)
    \/ \E h \in Handlers : TranscodeGo(h)
    \/ \E h \in Handlers : Return(h)
    \/ \E j \in JobIds, e \in EncoderResults : RunnerLock(j, e)
    \/ \E j \in JobIds : RunnerStore(j)
    \/ \E j \in JobIds, r \in SaveResults : RunnerSave(j, r)

SpecTwo == InitTwo /\ [][NextTwo]_vars

\* ------------------------------------------- the videos directory changes
\* A source file is deleted from ./videos while the server runs: os.Stat (170)
\* and os.ReadDir (108) consult the directory anew on every request.
RemoveVideo(name) ==
    /\ NoResponsePending
    /\ FileExists(name)
    /\ videos' = SelectSeq(videos, LAMBDA e : e # name)
    /\ UNCHANGED <<mu, mappings, heap, disk, dirs, loadErr, runner, handlers,
                   hist>>

NextFiles ==
    \/ Next
    \/ \E n \in Keys : RemoveVideo(n)

SpecFiles == Init /\ [][NextFiles]_vars


\* ================================================================ claims
Active(j) == runner[j].pc \notin {"none", "done"}
ActiveFor(name) == {j \in JobIds : Active(j) /\ runner[j].videoName = name}
Moved(h) == handlers'[h] # handlers[h]

\* C1: at most one transcode goroutine is active for any video name.
\* The lookup (177-179) and the insertion (204-211) are separate critical
\* sections, so two submissions can both find no record and both spawn.
C1_AtMostOneRunner == \A n \in Keys : Cardinality(ActiveFor(n)) <= 1

\* C2: a submission that finds no record for an existing file inserts one
\* record with status processing under that name (every other key kept),
\* calls save on the registry holding it (the file then equals the registry
\* unless the save failed), spawns one runner for it and answers "started".
C2_Step(h) ==
    LET me == handlers[h]
        name == me.videoName
    IN  CASE me.pc = "t_lock" ->
                /\ heap' = Append(heap, [OriginalName |-> name,
                                         TranscodeDir |-> TranscodeDirOf(name),
                                         Status |-> Processing])
                /\ mappings' = [mappings EXCEPT ![name] = Len(heap) + 1]
                /\ handlers'[h].pc = "t_save"
                /\ UNCHANGED <<disk, runner>>
          [] me.pc = "t_save" ->
                /\ \/ disk' = disk
                   \/ disk'.form = "truncated"
                   \/ /\ disk'.present
                      /\ disk'.form = "json"
                      /\ disk'.doc = Marshal(mappings', heap')
                      /\ \E r \in disk'.doc : r.key = name
                /\ Lookup(name) # 0
                /\ handlers'[h].pc = "t_go"
                /\ UNCHANGED <<mappings, heap, runner>>
          [] me.pc = "t_go" ->
                /\ runner[me.job].pc = "none"
                /\ runner' = [runner EXCEPT ![me.job] =
                        [pc |-> "run", videoName |-> name, err |-> "nil"]]
                /\ handlers'[h].pc = "done"
                /\ handlers'[h].resp.code = 200
                /\ handlers'[h].resp.body.message = "Transcoding started"
                /\ handlers'[h].resp.body.status = Processing
                /\ UNCHANGED <<mappings, heap, disk>>
          [] OTHER -> FALSE

C2_NoRecordSubmission ==
    [][\A h \in Handlers :
        /\ (/\ handlers[h].kind = "transcode"
            /\ handlers[h].pc \notin {"idle", "done"}
            /\ ~handlers[h].exists
            /\ Moved(h)) => C2_Step(h)
        /\ (/\ handlers[h].pc = "idle"
            /\ handlers'[h].kind = "transcode"
            /\ FileExists(handlers'[h].videoName)
            /\ handlers'[h].resp.code # 405
            /\ Lookup(handlers'[h].videoName) = 0)
                => handlers'[h].pc = "t_lock" /\ ~handlers'[h].exists
      ]_vars

C2_Witness ==
    \E h \in Handlers :
        /\ handlers[h].pc = "done"
        /\ handlers[h].kind = "transcode"
        /\ seen[h] = "none"
        /\ handlers[h].job # 0
        /\ runner[handlers[h].job].pc = "run"

Answered(h, kind) == handlers[h].pc = "done" /\ handlers[h].kind = kind

\* C4: a submission that finds the record completed answers with the
\* existing transcode_dir and stream_url and inserts or spawns nothing.
\* Status is tested after RUnlock (181), when a second runner for the video
\* may have stored failed.
C4_CompletedIsReturned ==
    \A h \in Handlers :
        (Answered(h, "transcode") /\ seen[h] = Completed)
            => /\ handlers[h].job = 0
               /\ handlers[h].resp = Json(
                    [message |-> "Video already transcoded",
                     transcode_dir |-> TranscodeDirOf(handlers[h].videoName),
                     stream_url |->
                        StreamURL(TranscodeDirOf(handlers[h].videoName))])

\* C5: a submission that finds the record failed replaces it by a fresh
\* processing record and spawns one runner.
\* Status is tested after RUnlock (181), when a second runner for the video
\* may have stored completed.
C5_FailedIsRetried ==
    \A h \in Handlers :
        (Answered(h, "transcode") /\ seen[h] = Failed)
            => /\ handlers[h].job # 0
               /\ runner[handlers[h].job].pc = "run"
               /\ handlers[h].resp.body.message = "Transcoding started"

\* C6: the status stored for a video changes only from processing to
\* completed or failed, or from failed to processing (and from no record to
\* processing); completed never changes.
Transitions ==
    { <<"none", Processing>>, <<Processing, Completed>>,
      <<Processing, Failed>>, <<Failed, Processing>> }

C6_StatusTransitions ==
    [][\A n \in Keys :
        StatusOf(n)' # StatusOf(n) => <<StatusOf(n), StatusOf(n)'>> \in Transitions
      ]_vars

\* C7: the store of a runner goes to the record that the submission which
\* spawned it created, so no record is stored by a foreign runner or twice.
C7_OwnRecordOnly ==
    [][\A j \in JobIds :
        (runner[j].pc = "storing" /\ runner'[j].pc = "save") => Target(j) = j
      ]_vars

\* C8: a status response carries stream_url exactly when its status field is
\* completed.
C8_StatusConsistent ==
    \A h \in Handlers :
        (Answered(h, "status") /\ handlers[h].resp.code = 200)
            => ("stream_url" \in DOMAIN handlers[h].resp.body
                    <=> handlers[h].resp.body.status = Completed)

\* C9: no handler reads the Status of a record between a runner's store into
\* it and the end of that runner's save.
ReadsStatus(h) ==
    /\ handlers[h].pc \in {"t_chk1", "t_chk2", "s_build", "s_url"}
    /\ Moved(h)

C9_NoReadBeforeSave ==
    [][\A h \in Handlers :
        ReadsStatus(h) =>
            ~\E j \in JobIds :
                runner[j].pc = "save" /\ Target(j) = handlers[h].mapping
      ]_vars

\* C10: a status query that begins after a runner for the video has finished,
\* with no submission accepted since, answers the status that runner wrote,
\* with stream_url /hls/<transcode_dir>/master.m3u8 exactly when completed.
C10_TerminalStatusAnswered ==
    \A h \in Handlers :
        (Answered(h, "status") /\ expect[h] # "none")
            => /\ handlers[h].resp.code = 200
               /\ handlers[h].resp.body.status = expect[h]
               /\ expect[h] = Completed =>
                    /\ "stream_url" \in DOMAIN handlers[h].resp.body
                    /\ handlers[h].resp.body.stream_url =
                            StreamURL(handlers[h].resp.body.transcode_dir)
               /\ expect[h] # Completed =>
                    "stream_url" \notin DOMAIN handlers[h].resp.body


\* C11: a status query that begins after an accepted submission for the video
\* has been answered finds the record: it is not answered 404, because the
\* insertion (205) precedes the response (216) and no key is ever removed.
C11_FoundAfterResponse ==
    [][\A h \in Handlers :
        (/\ handlers[h].pc = "idle"
         /\ handlers'[h].kind = "status"
         /\ handlers'[h].videoName \in returned)
            => /\ Lookup(handlers'[h].videoName) # 0
               /\ handlers'[h].pc = "s_build"
               /\ handlers'[h].resp.code # 404
               /\ handlers'[h].mapping = Lookup(handlers'[h].videoName)
      ]_vars

C11_Witness ==
    \E h \in Handlers :
        /\ Answered(h, "status")
        /\ handlers[h].videoName \in returned
        /\ handlers[h].resp.code = 200
        /\ handlers[h].resp.body.status = Processing

\* C12: a request answered 400, 404 or 405 is answered in the step that begins
\* it, and that step leaves the registry, its records, the file on disk, the
\* output directories, the lock and the runners as they were; and a POST to
\* /api/transcode naming an absent source file is answered 404 "Video not
\* found" whether or not the registry has a record of the name.
ClientError(resp) == resp.code \in {400, 404, 405}

SaveFailures == SaveResults \ {"ok"}

C13_MemoryKept ==
    /\ \A h \in Handlers, r \in SaveFailures :
            TranscodeSave(h, r)
                => /\ UNCHANGED <<mappings, heap>>
                   /\ Lookup(handlers[h].videoName) = handlers[h].job
                   /\ heap[handlers[h].job].Status = Processing
                   /\ handlers'[h].pc = "t_go"
    /\ \A h \in Handlers :
            (handlers[h].pc = "t_go" /\ Moved(h))
                => /\ runner'[handlers[h].job] = Spawn(handlers[h].videoName)
                   /\ handlers'[h].pc = "done"
                   /\ handlers'[h].resp.code = 200
                   /\ handlers'[h].resp.body.message = "Transcoding started"
    /\ \A j \in JobIds, r \in SaveFailures :
            RunnerSave(j, r)
                => /\ UNCHANGED <<mappings, heap>>
                   /\ heap[Target(j)].Status \in {Completed, Failed}

C13_FileKept ==
    /\ \A h \in Handlers, r \in SaveFailures :
            TranscodeSave(h, r) => disk' = disk
    /\ \A j \in JobIds, r \in SaveFailures :
            RunnerSave(j, r) => disk' = disk

C13_SaveFailure == [][C13_MemoryKept /\ C13_FileKept]_vars

\* C14: when every save succeeds, the file on disk holds exactly the registry
\* (one member per key of the registry, with that record's status and
\* transcode_dir; no file while the registry is still empty) in every state
\* except those where a writer holds the lock and has written the registry
\* but not yet saved (handler between 205 and 210, runner between 286/289
\* and 292).
DiskKeys == {r.key : r \in disk.doc}

DiskEqualsRegistry ==
    /\ disk.form = "json"
    /\ disk.present <=> (\E k \in Keys : mappings[k] # 0)
    /\ DiskKeys = {k \in Keys : mappings[k] # 0}
    /\ Cardinality(disk.doc) = Cardinality(DiskKeys)
    /\ \A r \in disk.doc :
            /\ r.status = heap[mappings[r.key]].Status
            /\ r.transcode_dir = heap[mappings[r.key]].TranscodeDir

BeforeSave ==
    \/ \E h \in Handlers : handlers[h].pc = "t_save"
    \/ \E j \in JobIds : runner[j].pc = "save"

C14_DiskEqualsRegistry ==
    /\ mu.writer = NoOne => DiskEqualsRegistry
    /\ ~DiskEqualsRegistry => (mu.writer # NoOne /\ BeforeSave)

C14_Witness ==
    /\ mu.writer = NoOne
    /\ \E r \in disk.doc :
            /\ r.status = Failed
            /\ heap[mappings[r.key]].Status = Failed
    /\ Len(heap) > 1

\* C15: under fair scheduling with every encoder invocation ending, a video
\* with an accepted submission whose runner has not finished eventually has a
\* record that is completed or failed when its runner ends; a writer or a
\* reader that holds the lock eventually releases it, and a writer that
\* waits for it eventually gets it.
C15_Progress ==
    /\ \A j \in 1..MaxFairJobs :
            (runner[j].pc = "run")
                ~> (/\ runner[j].pc = "done"
                    /\ StatusOf(runner[j].videoName) \in {Completed, Failed})
    /\ (mu.writer # NoOne) ~> (mu.writer = NoOne)
    /\ (mu.pending # NoOne) ~> (mu.writer # NoOne)
    /\ \A h \in Handlers : (h \in mu.readers) ~> (h \notin mu.readers)

C15_Witness ==
    \E j \in JobIds :
        /\ runner[j].pc = "done"
        /\ runner[j].videoName \in returned
        /\ StatusOf(runner[j].videoName) \in {Completed, Failed}
        /\ mu.writer = NoOne
        /\ mu.pending = NoOne
        /\ \E k \in JobIds : k # j /\ runner[k].pc = "done"

\* C16: no step of the listing handler changes the registry, its records, the
\* file on disk, the output directories or the runners; its answer has one
\* entry per video file of the directory; an entry for a name without a
\* record has transcoded false and neither status nor stream_url; an entry
\* for a name with a record has that record's status (as it is in the state
\* the list is built in), has transcoded true exactly when that status is
\* completed, and has a stream_url (that of the record's directory) exactly
\* when that status is completed.
C16_Entry(e) ==
    IF Lookup(e.name) = 0 THEN
        /\ DOMAIN e = {"name", "transcoded"}
        /\ e.transcoded = FALSE
    ELSE
        /\ {"name", "transcoded", "status"} \subseteq DOMAIN e
        /\ e.status = heap[Lookup(e.name)].Status
        /\ StoringInto(Lookup(e.name)) = {}
        /\ e.transcoded <=> (e.status = Completed)
        /\ ("stream_url" \in DOMAIN e) <=> (e.status = Completed)
        /\ "stream_url" \in DOMAIN e
                => e.stream_url = StreamURL(heap[Lookup(e.name)].TranscodeDir)

C16_Listing ==
    [][\A h \in Handlers :
        /\ (Moved(h) /\ "videos" \in {handlers[h].kind, handlers'[h].kind})
                => UNCHANGED <<mappings, heap, disk, dirs, runner>>
        /\ (handlers[h].pc = "g_list" /\ Moved(h))
                => /\ handlers'[h].resp.code = 200
                   /\ LET body == handlers'[h].resp.body IN
                        /\ {body[i].name : i \in 1..Len(body)}
                                = {n \in Range(videos) : Ext(n) \in VideoExts}
                        /\ \A i \in 1..Len(body) : C16_Entry(body[i])
      ]_vars

C16_Witness ==
    \E h \in Handlers :
        /\ Answered(h, "videos")
        /\ handlers[h].resp.code = 200
        /\ \E i \in 1..Len(handlers[h].resp.body) :
                LET e == handlers[h].resp.body[i] IN
                    /\ "status" \in DOMAIN e
                    /\ e.status = Processing
                    /\ ~e.transcoded
                    /\ "stream_url" \notin DOMAIN e
        /\ \E j \in JobIds : runner[j].pc = "done"

\* C17: no step removes a key from state.mappings, and every runner that has
\* not yet finished, and so has yet to look its record up (286/289) or has
\* just done so, finds a record under its video name.
C17_KeyNeverRemoved ==
    [][/\ \A n \in Keys : mappings[n] # 0 => mappings'[n] # 0
       /\ \A j \in JobIds :
            runner'[j].pc \in {"run", "storing", "save"}
                => /\ runner'[j].videoName \in Keys
                   /\ mappings'[runner'[j].videoName] # 0
                   /\ mappings'[runner'[j].videoName] \in 1..Len(heap')
      ]_vars

C17_Witness ==
    \E j \in JobIds :
        /\ runner[j].pc = "save"
        /\ Target(j) # 0
        /\ Target(j) # j
        /\ heap[Target(j)].Status = Failed

\* C18: state.load() with no file returns nil and leaves the registry empty;
\* whenever it returns an error the registry is empty when the server starts
\* to serve, so that every status query is answered 404.
RegistryEmpty == \A k \in Keys : mappings[k] = 0

C18_LoadErrorMeansEmpty ==
    /\ (loadErr # "pending" /\ ~disk.present)
            => (loadErr = "nil" /\ RegistryEmpty)
    /\ loadErr \notin {"pending", "nil"} => RegistryEmpty
    /\ \A h \in Handlers :
            (Answered(h, "status") /\ loadErr # "nil")
                => handlers[h].resp.code \in {400, 404}

\* C19: in every state, across stops and restarts, a video whose record is
\* processing has an active runner, or a handler that has inserted the
\* record and is about to spawn the runner (between 205 and 214).
AboutToSpawn(n) ==
    {h \in Handlers :
        handlers[h].pc \in {"t_save", "t_go"} /\ handlers[h].videoName = n}

C19_ProcessingHasRunner ==
    \A n \in Keys :
        StatusOf(n) = Processing
            => (ActiveFor(n) # {} \/ AboutToSpawn(n) # {})

\* C20: two runners that are active at the same time for two different video
\* names write to different output directories, and the records of the two
\* names have different transcode_dir values.
C20_DistinctOutputDirs ==
    \A j, k \in JobIds :
        (/\ Active(j)
         /\ Active(k)
         /\ runner[j].videoName # runner[k].videoName)
            => /\ OutputDir(j) # OutputDir(k)
               /\ heap[Target(j)].TranscodeDir # heap[Target(k)].TranscodeDir
====
